---------------------------- MODULE Spec2Model ----------------------------
(* Model of the langchain-testbench designer front end:                    *)
(*   - the Spec Editor Session (app/src/contexts/ChainSpecContext.tsx):    *)
(*     committed tree, working tree, id allocator, and the callbacks the   *)
(*     provider hands out, each reading the state of the render that made  *)
(*     it and queueing state updates for the next render;                  *)
(*   - the tree mutation engine the session calls (model/spec_control);    *)
(*   - the template scanners of the leaf designers                         *)
(*     (app/src/components/Designer.tsx).                                  *)
EXTENDS Integers, Sequences, FiniteSets, TLC

(***************************************************************************)
(* Bounds of the model.                                                    *)
(***************************************************************************)
\* calls made on the session (setChainSpec, insertChainSpec, updateChainSpec) in one run
MaxCalls == 4
\* largest insert position tried
MaxIndex == 1
\* pieces a scanned template is put together from
MaxPieces == 2
\* formatters of the Reformat designer
MaxFormatters == 2
\* setTimeout callbacks of the LLM designer waiting to run
MaxTimeouts == 2

(***************************************************************************)
(* State.                                                                  *)
(***************************************************************************)
\* the Spec Editor Session (ChainSpecProvider)
VARIABLES
    chainSpec,        \* useState: the committed tree of the current render
    dirtyChainSpec,   \* useState: the working tree of the current render
    nextChainId,      \* useState: the id allocator of the current render
    queued,           \* the values the setters have scheduled for the next render
    findDirty,        \* the dirtyChainSpec captured by findChainInCurrentSpec
    readyToInteract,  \* useMemo: the clean gate of the current render
    lastCall,         \* the last call made on the session and whether it threw
    allocated,        \* the chain_ids handed out by successful inserts, in call order
    calls             \* the number of calls made on the session so far

sessionVars == <<chainSpec, dirtyChainSpec, nextChainId, queued, findDirty,
                 readyToInteract, lastCall, allocated, calls>>

\* one pass of the Reformat designer's reducer over a text
VARIABLES
    text,        \* the string being scanned
    pos,         \* the position the pass has reached
    state,       \* the reducer state threaded through the matches
    lastMatch,   \* the last match reduced (NoMatch before the first)
    before,      \* the reducer state that match was reduced from
    joined,      \* whether a join directive was reduced before that match
    scanned,     \* [done, input_keys]: what finalize handed to setVariables
    objects      \* [heap, cur, received]: the Set objects made so far, the pair the
                 \* pass holds now and the pair the last reduction received

scanVars == <<text, pos, state, lastMatch, before, joined, scanned, objects>>

\* the leaf designers
VARIABLES
    mounted,    \* which designer is mounted: "llm", "reformat" or "api"
    llm,        \* [prompt, variables, timeouts, node]
    reformat,   \* [formatters, variables, node]
    api,        \* [url, method, headers, headersError, body, textarea, lastParsed,
                \*  spec, node]
    caseDesigner  \* [cases, spec, node]: CaseSpecDesigner's entries, prop and node

designerVars == <<mounted, llm, reformat, api, caseDesigner>>

(***************************************************************************)
(* Chain spec trees.                                                       *)
(***************************************************************************)
\* JS null: no tree
Null == [chain_type |-> "null"]

LLMNode(id, p) == [chain_type |-> "llm_spec", chain_id |-> id, prompt |-> p]

SeqNode(id, cs) == [chain_type |-> "sequential_spec", chain_id |-> id, chains |-> cs]

\* cases: the label->chain map in its iteration order, entries [label, chain]
CaseNode(id, key, cs, dflt) ==
    [chain_type |-> "case_spec", chain_id |-> id, categorization_key |-> key,
     cases |-> cs, default_case |-> dflt]

SpecTypes == {"llm_spec", "sequential_spec", "case_spec"}

\* a freshly constructed default node of a type
DefaultSpec(type, id) ==
    CASE type = "llm_spec" -> LLMNode(id, "")
      [] type = "sequential_spec" -> SeqNode(id, <<>>)
      [] type = "case_spec" -> CaseNode(id, "", <<>>, Null)

\* children in traversal order: chains in order; cases in map order, then default_case
Children(n) ==
    CASE n.chain_type = "sequential_spec" -> n.chains
      [] n.chain_type = "case_spec" ->
            [i \in 1..Len(n.cases) |-> n.cases[i].chain]
            \o (IF n.default_case = Null THEN <<>> ELSE <<n.default_case>>)
      [] OTHER -> <<>>

RECURSIVE IdSeq(_)
\* every chain_id of a tree, one entry per node, in traversal order
IdSeq(n) ==
    IF n = Null THEN <<>>
    ELSE LET RECURSIVE Cat(_, _)
             Cat(cs, i) == IF i > Len(cs) THEN <<>> ELSE IdSeq(cs[i]) \o Cat(cs, i + 1)
         IN <<n.chain_id>> \o Cat(Children(n), 1)

IdSet(n) == {IdSeq(n)[i] : i \in 1..Len(IdSeq(n))}

DistinctIds(n) == Cardinality(IdSet(n)) = Len(IdSeq(n))

RECURSIVE FindByChainId(_, _)
\* depth-first, a node is checked before its children; Null when absent
FindByChainId(id, n) ==
    IF n = Null THEN Null
    ELSE IF n.chain_id = id THEN n
    ELSE LET RECURSIVE First(_, _)
             First(cs, i) ==
                 IF i > Len(cs) THEN Null
                 ELSE LET r == FindByChainId(id, cs[i])
                      IN IF r # Null THEN r ELSE First(cs, i + 1)
         IN First(Children(n), 1)

\* a container rebuilt over a new list of children (same shape as Children)
WithChildren(n, cs) ==
    CASE n.chain_type = "sequential_spec" -> [n EXCEPT !.chains = cs]
      [] n.chain_type = "case_spec" ->
            [n EXCEPT !.cases = [i \in 1..Len(n.cases) |->
                                    [label |-> n.cases[i].label, chain |-> cs[i]]],
                      !.default_case = IF n.default_case = Null THEN Null
                                       ELSE cs[Len(cs)]]
      [] OTHER -> n

RECURSIVE Replace(_, _)
\* replace(tree, id, node): the first node in traversal order whose chain_id is
\* s.chain_id is substituted whole, its ancestors rebuilt; found = FALSE and the
\* tree as it was when no node matches
Replace(n, s) ==
    IF n = Null THEN [found |-> FALSE, chainSpec |-> n]
    ELSE IF n.chain_id = s.chain_id THEN [found |-> TRUE, chainSpec |-> s]
    ELSE LET RECURSIVE Walk(_, _, _)
             \* children i.. of cs, done: whether an earlier child already matched
             Walk(cs, i, done) ==
                 IF i > Len(cs) THEN [found |-> done, chains |-> <<>>]
                 ELSE IF done
                      THEN [found |-> TRUE,
                            chains |-> <<cs[i]>> \o Walk(cs, i + 1, TRUE).chains]
                      ELSE LET r == Replace(cs[i], s)
                               rest == Walk(cs, i + 1, r.found)
                           IN [found |-> rest.found,
                               chains |-> <<r.chainSpec>> \o rest.chains]
             w == Walk(Children(n), 1, FALSE)
         IN [found |-> w.found,
             chainSpec |-> IF w.found THEN WithChildren(n, w.chains) ELSE n]

\* updateChainSpec(tree, spec) of model/spec_control
UpdateChainSpec(tree, spec) == Replace(tree, spec)

IsContainer(n) == n # Null /\ n.chain_type \in {"sequential_spec", "case_spec"}

Clamp(index, len) == IF index < 0 THEN 0 ELSE IF index > len THEN len ELSE index

InsertAt(s, index, x) ==
    LET k == Clamp(index, Len(s))
    IN SubSeq(s, 1, k) \o <<x>> \o SubSeq(s, k + 1, Len(s))

\* a label->chain map without the entry of a label (a map holds a label once)
WithoutLabel(cs, l) == SelectSeq(cs, LAMBDA e : e.label # l)

\* the generated placeholder label of a new case entry
PlaceholderLabel(id) == "case_" \o ToString(id)

\* insertChainSpec(tree, nextId, type, parentId, index) of model/spec_control:
\* ok = FALSE stands for the failed (throwing) call
InsertGeneratedChainSpec(tree, nextId, type, parentId, index) ==
    IF tree = Null THEN [ok |-> TRUE, chainSpec |-> DefaultSpec(type, nextId)]
    ELSE LET parent == FindByChainId(parentId, tree)
             node == DefaultSpec(type, nextId)
         IN IF ~IsContainer(parent) THEN [ok |-> FALSE, chainSpec |-> tree]
            ELSE LET grown ==
                         IF parent.chain_type = "sequential_spec"
                         THEN [parent EXCEPT !.chains = InsertAt(parent.chains, index, node)]
                         ELSE [parent EXCEPT !.cases =
                                  InsertAt(WithoutLabel(parent.cases, PlaceholderLabel(nextId)),
                                           index,
                                           [label |-> PlaceholderLabel(nextId), chain |-> node])]
                 IN [ok |-> TRUE, chainSpec |-> Replace(tree, grown).chainSpec]

RECURSIVE DeepEquals(_, _)
\* deepEquals of util/sets: variant and scalar fields by value, Sequential children
\* in order, Case cases as a label-keyed map (order-independent) plus default_case
DeepEquals(a, b) ==
    IF a = Null \/ b = Null THEN a = b
    ELSE IF a.chain_type # b.chain_type \/ a.chain_id # b.chain_id THEN FALSE
    ELSE CASE a.chain_type = "llm_spec" -> a.prompt = b.prompt
           [] a.chain_type = "sequential_spec" ->
                 /\ Len(a.chains) = Len(b.chains)
                 /\ \A i \in 1..Len(a.chains) : DeepEquals(a.chains[i], b.chains[i])
           [] a.chain_type = "case_spec" ->
                 /\ a.categorization_key = b.categorization_key
                 /\ DeepEquals(a.default_case, b.default_case)
                 /\ {a.cases[i].label : i \in 1..Len(a.cases)}
                       = {b.cases[i].label : i \in 1..Len(b.cases)}
                 /\ \A i \in 1..Len(a.cases) : \A j \in 1..Len(b.cases) :
                       a.cases[i].label = b.cases[j].label
                       => DeepEquals(a.cases[i].chain, b.cases[j].chain)

(***************************************************************************)
(* The Spec Editor Session: ChainSpecProvider.                             *)
(***************************************************************************)
\* trees a caller loads with setChainSpec: pairwise distinct chain_ids
LoadTrees ==
    { LLMNode(0, "p"),
      SeqNode(0, <<LLMNode(1, "p")>>),
      SeqNode(1, <<>>),
      CaseNode(0, "k", <<[label |-> "x", chain |-> LLMNode(1, "p")]>>, LLMNode(2, "p")) }

ChainIds == 0..MaxCalls

RECURSIVE Nodes(_)
\* every node of a tree
Nodes(n) ==
    IF n = Null THEN {}
    ELSE {n} \cup UNION {Nodes(Children(n)[i]) : i \in 1..Len(Children(n))}

\* an edit of a node's own scalar field, chain_id and children kept
Edited(n) ==
    CASE n.chain_type = "llm_spec" -> [n EXCEPT !.prompt = IF @ = "q" THEN "p" ELSE "q"]
      [] n.chain_type = "case_spec" ->
            [n EXCEPT !.categorization_key = IF @ = "j" THEN "k" ELSE "j"]
      [] OTHER -> n

\* the specs updateChainSpec is called with: an edited node of the working tree,
\* or a leaf whose chain_id may be absent from it
UpdateArgs(tree) ==
    {Edited(n) : n \in Nodes(tree)} \cup {LLMNode(id, "q") : id \in ChainIds}

\* a clean gate that leaves out the !!chainSpec guard
ReadyToInteract_NoNullGuard(committed, working) == DeepEquals(committed, working)

\* readyToInteract
ReadyToInteract(committed, working) ==
    committed # Null /\ DeepEquals(committed, working)

\* setChains: schedules both trees
setChains(q, spec) ==
    [q EXCEPT !.chainSpec = spec, !.dirtyChainSpec = spec, !.chainSpecSet = TRUE]

SessionInit ==
    /\ chainSpec = Null
    /\ dirtyChainSpec = Null
    /\ nextChainId = 0
    /\ queued = [chainSpec |-> Null, dirtyChainSpec |-> Null, nextChainId |-> 0,
                 chainSpecSet |-> FALSE]
    /\ findDirty = Null
    /\ readyToInteract = ReadyToInteract(Null, Null)
    /\ lastCall = [op |-> "init", threw |-> FALSE, id |-> -1, type |-> ""]
    /\ allocated = <<>>
    /\ calls = 0

\* context.setChainSpec(spec)
setChainSpec(spec) ==
    /\ UNCHANGED <<scanVars, designerVars>>
    /\ calls < MaxCalls
    /\ calls' = calls + 1
    /\ queued' = setChains(queued, spec)
    /\ lastCall' = [op |-> "set", threw |-> FALSE, id |-> spec.chain_id, type |-> ""]
    /\ UNCHANGED <<chainSpec, dirtyChainSpec, nextChainId, findDirty, readyToInteract,
                   allocated>>

\* an insertChainSpec whose setNextChainId runs although the engine call failed
insertChainSpec_AdvancesOnFailure(type, chainId, index) ==
    LET r == InsertGeneratedChainSpec(dirtyChainSpec, nextChainId, type, chainId, index)
    IN /\ UNCHANGED <<scanVars, designerVars>>
       /\ calls < MaxCalls
       /\ calls' = calls + 1
       /\ IF r.ok
          THEN /\ queued' = [setChains(queued, r.chainSpec)
                                EXCEPT !.nextChainId = nextChainId + 1]
               /\ allocated' = Append(allocated, nextChainId)
          ELSE /\ queued' = [queued EXCEPT !.nextChainId = nextChainId + 1]
               /\ UNCHANGED allocated
       /\ lastCall' = [op |-> "insert", threw |-> ~r.ok, id |-> chainId,
                       type |-> IF r.ok THEN type ELSE ""]
       /\ UNCHANGED <<chainSpec, dirtyChainSpec, nextChainId, findDirty, readyToInteract>>

\* an insertChainSpec that hands the engine its chainId argument as the new id
insertChainSpec_IdFromArgument(type, chainId, index) ==
    LET r == InsertGeneratedChainSpec(dirtyChainSpec, chainId, type, chainId, index)
    IN /\ UNCHANGED <<scanVars, designerVars>>
       /\ calls < MaxCalls
       /\ calls' = calls + 1
       /\ IF r.ok
          THEN /\ queued' = [setChains(queued, r.chainSpec)
                                EXCEPT !.nextChainId = nextChainId + 1]
               /\ allocated' = Append(allocated, nextChainId)
          ELSE UNCHANGED <<queued, allocated>>
       /\ lastCall' = [op |-> "insert", threw |-> ~r.ok, id |-> chainId,
                       type |-> IF r.ok THEN type ELSE ""]
       /\ UNCHANGED <<chainSpec, dirtyChainSpec, nextChainId, findDirty, readyToInteract>>

\* context.insertChainSpec(type, chainId, index): reads the render's dirtyChainSpec
\* and nextChainId; a throwing engine call leaves before any setter runs.  lastCall
\* keeps the type asked for when the call went through
insertChainSpec(type, chainId, index) ==
    LET r == InsertGeneratedChainSpec(dirtyChainSpec, nextChainId, type, chainId, index)
    IN /\ UNCHANGED <<scanVars, designerVars>>
       /\ calls < MaxCalls
       /\ calls' = calls + 1
       /\ IF r.ok
          THEN /\ queued' = [setChains(queued, r.chainSpec)
                                EXCEPT !.nextChainId = nextChainId + 1]
               /\ allocated' = Append(allocated, nextChainId)
          ELSE UNCHANGED <<queued, allocated>>
       /\ lastCall' = [op |-> "insert", threw |-> ~r.ok, id |-> chainId,
                       type |-> IF r.ok THEN type ELSE ""]
       /\ UNCHANGED <<chainSpec, dirtyChainSpec, nextChainId, findDirty, readyToInteract>>

\* context.findByChainId(chainId): findChainInCurrentSpec, made anew only when
\* chainSpec changes, searches the dirtyChainSpec of the render that made it;
\* Null stands for undefined
findChainInCurrentSpec(chainId) ==
    IF findDirty = Null THEN Null ELSE FindByChainId(chainId, findDirty)

\* an update that swallows found = false instead of throwing
updateDirtyChainSpec_Swallow(spec) ==
    LET result == UpdateChainSpec(dirtyChainSpec, spec)
    IN /\ UNCHANGED <<scanVars, designerVars>>
       /\ calls < MaxCalls
       /\ calls' = calls + 1
       /\ queued' = [queued EXCEPT !.dirtyChainSpec = result.chainSpec]
       /\ lastCall' = [op |-> "update", threw |-> FALSE, id |-> spec.chain_id, type |-> ""]
       /\ UNCHANGED <<chainSpec, dirtyChainSpec, nextChainId, findDirty, readyToInteract,
                      allocated>>

\* context.updateChainSpec(spec): reads the render's dirtyChainSpec
updateDirtyChainSpec(spec) ==
    LET result == UpdateChainSpec(dirtyChainSpec, spec)
    IN /\ UNCHANGED <<scanVars, designerVars>>
       /\ calls < MaxCalls
       /\ calls' = calls + 1
       /\ IF ~result.found
          THEN UNCHANGED queued
          ELSE queued' = [queued EXCEPT !.dirtyChainSpec = result.chainSpec]
       /\ lastCall' = [op |-> "update", threw |-> ~result.found, id |-> spec.chain_id, type |-> ""]
       /\ UNCHANGED <<chainSpec, dirtyChainSpec, nextChainId, findDirty, readyToInteract,
                      allocated>>

\* some setter has run with a new value since the last render
UpdateScheduled ==
    \/ queued.chainSpecSet
    \/ queued.dirtyChainSpec # dirtyChainSpec
    \/ queued.nextChainId # nextChainId

\* the provider re-renders once some setter has run: the scheduled values become the
\* state, callbacks and memos whose dependencies changed are made anew
Render ==
    /\ UNCHANGED <<scanVars, designerVars>>
    /\ UpdateScheduled
    /\ chainSpec' = queued.chainSpec
    /\ dirtyChainSpec' = queued.dirtyChainSpec
    /\ nextChainId' = queued.nextChainId
    /\ queued' = [queued EXCEPT !.chainSpecSet = FALSE]
    /\ findDirty' = IF queued.chainSpecSet THEN queued.dirtyChainSpec ELSE findDirty
    /\ readyToInteract' = ReadyToInteract(queued.chainSpec, queued.dirtyChainSpec)
    /\ lastCall' = [op |-> "render", threw |-> FALSE, id |-> -1, type |-> ""]
    /\ UNCHANGED <<allocated, calls>>

(***************************************************************************)
(* Template text.  A string is the sequence of its characters; a name is   *)
(* such a sequence too.                                                    *)
(***************************************************************************)
Lower == {"a", "b", "c", "d", "e", "f", "g", "h", "i", "j", "k", "l", "m",
          "n", "o", "p", "q", "r", "s", "t", "u", "v", "w", "x", "y", "z"}

Upper == {"A", "B", "C", "D", "E", "F", "G", "H", "I", "J", "K", "L", "M",
          "N", "O", "P", "Q", "R", "S", "T", "U", "V", "W", "X", "Y", "Z"}

Digit == {"0", "1", "2", "3", "4", "5", "6", "7", "8", "9"}

\* [_A-Za-z0-9]
IdentChar == Lower \cup Upper \cup Digit \cup {"_"}

\* [_A-Za-z]
IdentStart == Lower \cup Upper \cup {"_"}

RECURSIVE RunIn(_, _, _)
\* the position after the longest run of characters of cls starting at i
RunIn(s, i, cls) ==
    IF i <= Len(s) /\ s[i] \in cls THEN RunIn(s, i + 1, cls) ELSE i

RECURSIVE RunNotIn(_, _, _)
\* the position after the longest run of characters outside cls starting at i
RunNotIn(s, i, cls) ==
    IF i <= Len(s) /\ s[i] \notin cls THEN RunNotIn(s, i + 1, cls) ELSE i

\* whether w stands in s at position i
StartsWith(s, i, w) ==
    /\ i + Len(w) - 1 <= Len(s)
    /\ \A k \in 1..Len(w) : s[i + k - 1] = w[k]

\* the directive words of extendedFormatterRegex, in the order of its alternation
Directives ==
    << [type |-> "join", word |-> <<"j", "o", "i", "n">>],
       [type |-> "parse_json",
        word |-> <<"p", "a", "r", "s", "e", "_", "j", "s", "o", "n">>],
       [type |-> "let", word |-> <<"l", "e", "t">>],
       [type |-> "expr", word |-> <<"e", "x", "p", "r">>],
       [type |-> "int", word |-> <<"i", "n", "t">>],
       [type |-> "float", word |-> <<"f", "l", "o", "a", "t">>] >>

\* no match of a pattern at a position; exprType "" and has* = FALSE stand for
\* undefined capture groups
NoMatch ==
    [matched |-> FALSE, next |-> 0, exprType |-> "", exprParam1 |-> <<>>,
     hasParam2 |-> FALSE, exprParam2 |-> <<>>, stdExpr |-> FALSE, stdExprVar |-> <<>>]

\* first alternative of extendedFormatterRegex at position i:
\*   \{(join|parse_json|let|expr|int|float):([^:\{\}]+)(:([^:\{\}]+))?\}
DirectiveMatch(s, i) ==
    LET ks == {k \in 1..Len(Directives) :
                  StartsWith(s, i, <<"{">> \o Directives[k].word \o <<":">>)}
    IN IF ks = {} THEN NoMatch
       ELSE LET k == CHOOSE x \in ks : TRUE
                p1 == i + Len(Directives[k].word) + 2
                e1 == RunNotIn(s, p1, {":", "{", "}"})
                p2 == e1 + 1
                e2 == RunNotIn(s, p2, {":", "{", "}"})
            IN IF e1 = p1 \/ e1 > Len(s) THEN NoMatch
               ELSE IF s[e1] = "}"
               THEN [NoMatch EXCEPT !.matched = TRUE, !.next = e1 + 1,
                                    !.exprType = Directives[k].type,
                                    !.exprParam1 = SubSeq(s, p1, e1 - 1)]
               ELSE IF s[e1] = ":" /\ e2 > p2 /\ e2 <= Len(s) /\ s[e2] = "}"
               THEN [NoMatch EXCEPT !.matched = TRUE, !.next = e2 + 1,
                                    !.exprType = Directives[k].type,
                                    !.exprParam1 = SubSeq(s, p1, e1 - 1),
                                    !.hasParam2 = TRUE,
                                    !.exprParam2 = SubSeq(s, p2, e2 - 1)]
               ELSE NoMatch

\* second alternative of extendedFormatterRegex at position i: (\{([^\{\}]*)\})
StdMatch(s, i) ==
    LET e == RunNotIn(s, i + 1, {"{", "}"})
    IN IF i <= Len(s) /\ s[i] = "{" /\ e <= Len(s) /\ s[e] = "}"
       THEN [NoMatch EXCEPT !.matched = TRUE, !.next = e + 1, !.stdExpr = TRUE,
                            !.stdExprVar = SubSeq(s, i + 1, e - 1)]
       ELSE NoMatch

\* extendedFormatterRegex at position i: the first alternative that matches
ExtendedFormatterRegex(s, i) ==
    IF DirectiveMatch(s, i).matched THEN DirectiveMatch(s, i) ELSE StdMatch(s, i)

\* parseFormatExpression: the leading run of [_A-Za-z0-9] and the rest
ParseFormatExpression(expr) ==
    LET e == RunIn(expr, 1, IdentChar)
    IN <<SubSeq(expr, 1, e - 1), SubSeq(expr, e, Len(expr))>>

\* Set.add on an insertion-ordered set kept as a sequence without repeats
SetAdd(set, item) ==
    IF \E i \in 1..Len(set) : set[i] = item THEN set ELSE Append(set, item)

\* a condAdd that adds whether or not the name is internal
CondAdd_Always(set1, set2, item) == SetAdd(set1, item)

\* condAdd(set1, set2, item)
CondAdd(set1, set2, item) == IF item \in set2 THEN set1 ELSE SetAdd(set1, item)

RECURSIVE Identifiers(_, _)
\* the matches of /[_A-Za-z][_A-Za-z0-9]*/g in s from position i, in order
Identifiers(s, i) ==
    IF i > Len(s) THEN <<>>
    ELSE IF s[i] \in IdentStart
         THEN <<SubSeq(s, i, RunIn(s, i, IdentChar) - 1)>>
              \o Identifiers(s, RunIn(s, i, IdentChar))
         ELSE Identifiers(s, i + 1)

RECURSIVE CondAddAll(_, _, _, _)
CondAddAll(set1, set2, items, i) ==
    IF i > Len(items) THEN set1
    ELSE CondAddAll(CondAdd(set1, set2, items[i]), set2, items, i + 1)

DataName == <<"d", "a", "t", "a">>
ItemName == <<"i", "t", "e", "m">>
IndexName == <<"i", "n", "d", "e", "x">>

\* a second argument that stays undefined when it is left out
Param2OrData_Undefined(m) == m.exprParam2

\* exprParam2 || 'data'
Param2OrData(m) == IF m.hasParam2 THEN m.exprParam2 ELSE DataName

\* the state a reducer starts from: [new Set(), new Set()]
EmptyState == [inputs |-> <<>>, internal |-> {}]

\* a binding branch that adds the name read whether or not it is internal
BindBranch_AddsInternal(st, m) ==
    LET variable == ParseFormatExpression(m.exprParam1)[1]
    IN [inputs |-> SetAdd(st.inputs, variable),
        internal |-> st.internal \cup {Param2OrData(m)}]

\* parse_json | let | int | float
BindBranch(st, m) ==
    LET variable == ParseFormatExpression(m.exprParam1)[1]
    IN [inputs |-> CondAdd(st.inputs, st.internal, variable),
        internal |-> st.internal \cup {Param2OrData(m)}]

\* a join branch that binds item only
JoinBranch_NoIndex(st, m) ==
    LET variable == ParseFormatExpression(m.exprParam1)[1]
    IN [inputs |-> CondAdd(st.inputs, st.internal, variable),
        internal |-> st.internal \cup {ItemName}]

\* join
JoinBranch(st, m) ==
    LET variable == ParseFormatExpression(m.exprParam1)[1]
    IN [inputs |-> CondAdd(st.inputs, st.internal, variable),
        internal |-> st.internal \cup {ItemName, IndexName}]

\* expr
ExprBranch(st, m) ==
    [inputs |-> CondAddAll(st.inputs, st.internal, Identifiers(m.exprParam1, 1), 1),
     internal |-> st.internal \cup {Param2OrData(m)}]

\* a plain branch that adds the bracket content with its modifier tail
StdBranch_KeepsTail(st, m) ==
    [inputs |-> CondAdd(st.inputs, st.internal, m.stdExprVar),
     internal |-> st.internal]

\* plain reference
StdBranch(st, m) ==
    LET variable == ParseFormatExpression(m.stdExprVar)[1]
    IN [inputs |-> CondAdd(st.inputs, st.internal, variable),
        internal |-> st.internal]

\* extendedFormatterReduceFunc: the new state and the kind of token rendered
ExtendedFormatterReduceFunc(st, m) ==
    IF m.exprType \in {"parse_json", "let", "int", "float"}
    THEN [state |-> BindBranch(st, m), token |-> "expr"]
    ELSE IF m.exprType = "join"
    THEN [state |-> JoinBranch(st, m), token |-> "expr"]
    ELSE IF m.exprType = "expr"
    THEN [state |-> ExprBranch(st, m), token |-> "expr"]
    ELSE IF m.stdExpr
    THEN [state |-> StdBranch(st, m), token |-> "expr"]
    ELSE [state |-> st, token |-> "error"]

\* the reducer's initial state made as objects: [new Set(), new Set()]
EmptyObjects ==
    [heap |-> <<EmptyState.inputs, EmptyState.internal>>,
     cur |-> [inputs |-> 1, internal |-> 2],
     received |-> [inputs |-> 1, internal |-> 2]]

\* the contents of a pair of Set objects
Contents(heap, pair) == [inputs |-> heap[pair.inputs], internal |-> heap[pair.internal]]

\* a reduction that adds to the Set objects it receives and returns them
ReduceOnObjects_InPlace(heap, pair, m) ==
    LET st == ExtendedFormatterReduceFunc(Contents(heap, pair), m).state
    IN [heap |-> [heap EXCEPT ![pair.inputs] = st.inputs, ![pair.internal] = st.internal],
        cur |-> pair]

\* extendedFormatterReduceFunc on Set objects: [new Set(inputs), new Set(internal)]
\* makes two objects with the contents of the pair received, every branch adds to
\* these two and returns them
ReduceOnObjects(heap, pair, m) ==
    LET copied == heap \o <<heap[pair.inputs], heap[pair.internal]>>
        new == [inputs |-> Len(heap) + 1, internal |-> Len(heap) + 2]
        st == ExtendedFormatterReduceFunc(Contents(copied, new), m).state
    IN [heap |-> [copied EXCEPT ![new.inputs] = st.inputs, ![new.internal] = st.internal],
        cur |-> new]

RECURSIVE ExtendedScan(_, _, _)
\* FormatReducer over extendedFormatterRegex: one left-to-right pass from position
\* i threading the state through the matches
ExtendedScan(s, i, st) ==
    IF i > Len(s) THEN st
    ELSE LET m == ExtendedFormatterRegex(s, i)
         IN IF m.matched
            THEN ExtendedScan(s, m.next, ExtendedFormatterReduceFunc(st, m).state)
            ELSE ExtendedScan(s, i + 1, st)

\* the Variable Dependency Extractor: Array.from(inputs) after the pass
ExtractInputs(s) == ExtendedScan(s, 1, EmptyState).inputs

\* the pattern of LLMSpecDesigner's reducer at position i: /{(.*?)}/g, the text up
\* to the first closing brace on the line
LLMRegex(s, i) ==
    LET e == RunNotIn(s, i + 1, {"}", "\n"})
    IN IF i <= Len(s) /\ s[i] = "{" /\ e <= Len(s) /\ s[e] = "}"
       THEN [NoMatch EXCEPT !.matched = TRUE, !.next = e + 1,
                            !.stdExprVar = SubSeq(s, i + 1, e - 1)]
       ELSE NoMatch

\* the reduction of LLMSpecDesigner's reducer: variables.add(variable)
LLMReduceFunc(variables, m) == SetAdd(variables, m.stdExprVar)

RECURSIVE LLMScan(_, _, _)
\* FormatReducer over LLMRegex from position i
LLMScan(s, i, variables) ==
    IF i > Len(s) THEN variables
    ELSE LET m == LLMRegex(s, i)
         IN IF m.matched THEN LLMScan(s, m.next, LLMReduceFunc(variables, m))
            ELSE LLMScan(s, i + 1, variables)

\* the pattern of APISpecDesigner's effect at position i: /\{([a-zA-Z0-9_]+)\}/g
APIRegex(s, i) ==
    LET e == RunIn(s, i + 1, IdentChar)
    IN IF i <= Len(s) /\ s[i] = "{" /\ e > i + 1 /\ e <= Len(s) /\ s[e] = "}"
       THEN [NoMatch EXCEPT !.matched = TRUE, !.next = e + 1,
                            !.stdExprVar = SubSeq(s, i + 1, e - 1)]
       ELSE NoMatch

RECURSIVE APIScan(_, _, _)
\* str.replace(regex, add) from position i: vars.add(matches[0])
APIScan(s, i, vars) ==
    IF i > Len(s) THEN vars
    ELSE LET m == APIRegex(s, i)
         IN IF m.matched THEN APIScan(s, m.next, SetAdd(vars, m.stdExprVar))
            ELSE APIScan(s, i + 1, vars)

\* the input_keys of APISpecDesigner's effect; body is <<>> when null or empty
APIInputKeys(url, method, headers, body) ==
    APIScan(body, 1, APIScan(headers, 1, APIScan(method, 1, APIScan(url, 1, <<>>))))

(***************************************************************************)
(* Template texts the scanners are run on.                                 *)
(***************************************************************************)
Ref(name) == <<"{">> \o name \o <<"}">>

Dir(word, arg1, arg2) == <<"{">> \o word \o <<":">> \o arg1 \o <<":">> \o arg2 \o <<"}">>

Dir1(word, arg1) == <<"{">> \o word \o <<":">> \o arg1 \o <<"}">>

JoinWord == Directives[1].word
LetWord == Directives[3].word
ExprWord == Directives[4].word

OutName == <<"o", "u", "t">>
ItemsName == <<"i", "t", "e", "m", "s">>

\* names used as directive arguments; one starts with a digit
Names == {<<"a">>, <<"b">>, <<"c">>, <<"1", "d">>}

Pieces ==
    { Ref(<<"a">>),                                  \* {a}
      Ref(<<"a", ".", "x">>),                        \* {a.x}
      Ref(<<"b">>),                                  \* {b}
      Dir(LetWord, <<"a">>, <<"b">>),                \* {let:a:b}
      Dir(ExprWord, <<"b", "+", "c">>, <<"a">>),     \* {expr:b+c:a}
      Dir(JoinWord, <<"a">>, OutName),               \* {join:a:out}
      Ref(OutName),                                  \* {out}
      Ref(ItemName),                                 \* {item}
      Ref(IndexName),                                \* {index}
      Dir1(LetWord, <<"c">>),                        \* {let:c}
      Ref(DataName),                                 \* {data}
      Dir(<<"f", "o", "o">>, <<"a">>, <<"b">>),      \* {foo:a:b}
      <<"-">> }                                      \* plain text

RECURSIVE Concats(_)
\* the texts put together from at most n pieces
Concats(n) ==
    IF n = 0 THEN {<<>>}
    ELSE Concats(n - 1) \cup {t \o p : t \in Concats(n - 1), p \in Pieces}

\* {let:a:b}{expr:b:c} and {expr:a:b}{let:b:c} over distinct names
DeclareThenUse(a, b, c) == Dir(LetWord, a, b) \o Dir(ExprWord, b, c)

UseThenDeclare(a, b, c) == Dir(ExprWord, a, b) \o Dir(LetWord, b, c)

DistinctTriples ==
    {t \in Names \X Names \X Names : t[1] # t[2] /\ t[1] # t[3] /\ t[2] # t[3]}

\* {join:items:out}{item}-{index}
JoinExample == Dir(JoinWord, ItemsName, OutName) \o Ref(ItemName) \o <<"-">> \o Ref(IndexName)

\* {b}{let:a:b}: b read before the directive that binds it
ReadThenDeclare(a, b) == Ref(b) \o Dir(LetWord, a, b)

\* {join:n:o}{item}-{index}
JoinThenLoopNames(n, o) ==
    Dir(JoinWord, n, o) \o Ref(ItemName) \o <<"-">> \o Ref(IndexName)

\* {join:n:o}{o}
JoinThenOut(n, o) == Dir(JoinWord, n, o) \o Ref(o)

\* the words of the directives that bind one name: parse_json, let, int, float
BindWords == {Directives[2].word, Directives[3].word, Directives[5].word,
              Directives[6].word}

\* {let:a:b}{w:n.x:o}: a binding directive w with both arguments after a let
BindAfterLet(w, a, b, n, o) ==
    Dir(LetWord, a, b) \o Dir(w, n \o <<".", "x">>, o)

BindTexts ==
    {BindAfterLet(w, t[1], t[2], n, t[3]) :
        w \in BindWords, t \in DistinctTriples, n \in Names}

\* the parts of a template of plain text and plain references {name<tail>}
PlainParts ==
    { [ref |-> TRUE, name |-> <<"a">>, tail |-> <<>>],                \* {a}
      [ref |-> TRUE, name |-> <<"a">>, tail |-> <<".", "x">>],        \* {a.x}
      [ref |-> TRUE, name |-> <<"b">>, tail |-> <<".", "y", "(", ")">>],  \* {b.y()}
      [ref |-> TRUE, name |-> <<"b">>, tail |-> <<>>],                \* {b}
      [ref |-> TRUE, name |-> <<"1", "d">>, tail |-> <<"[", "0", "]">>],  \* {1d[0]}
      [ref |-> FALSE, name |-> <<>>, tail |-> <<"-", "b">>] }         \* plain text

RECURSIVE PlainSeqs(_)
\* the sequences of at most n parts
PlainSeqs(n) ==
    IF n = 0 THEN {<<>>}
    ELSE PlainSeqs(n - 1) \cup {Append(ps, p) : ps \in PlainSeqs(n - 1), p \in PlainParts}

RECURSIVE RenderPlain(_)
\* the template text of a sequence of parts
RenderPlain(ps) ==
    IF ps = <<>> THEN <<>>
    ELSE (IF Head(ps).ref THEN Ref(Head(ps).name \o Head(ps).tail) ELSE Head(ps).tail)
         \o RenderPlain(Tail(ps))

PlainTexts == {RenderPlain(ps) : ps \in PlainSeqs(MaxPieces + 1)}

\* {let:a:b:c}{a} and {foo:bar:baz}{a}: bracket content with colons that has not
\* the shape of a directive, then a plain reference
ColonTexts ==
    { Ref(LetWord \o <<":", "a", ":", "b", ":", "c">>) \o Ref(<<"a">>),
      Dir(<<"f", "o", "o">>, <<"b", "a", "r">>, <<"b", "a", "z">>) \o Ref(<<"a">>) }

\* {w:n}{data}: a directive without its second argument, then a reference to data
DefaultThenData(w, n) == Dir1(w, n) \o Ref(DataName)

DefaultTexts == {DefaultThenData(w, n) : w \in BindWords \cup {ExprWord}, n \in Names}

ScanTexts ==
    Concats(MaxPieces)
    \cup DefaultTexts
    \cup BindTexts
    \cup PlainTexts
    \cup ColonTexts
    \cup {DeclareThenUse(t[1], t[2], t[3]) : t \in DistinctTriples}
    \cup {UseThenDeclare(t[1], t[2], t[3]) : t \in DistinctTriples}
    \cup {ReadThenDeclare(t[1], t[2]) : t \in DistinctTriples}
    \cup {JoinThenLoopNames(n, o) : n \in Names \cup {ItemsName, ItemName, IndexName},
                                    o \in Names \cup {OutName}}
    \cup {JoinThenOut(n, o) : n \in Names, o \in Names \cup {OutName}}

(***************************************************************************)
(* One pass of the Reformat designer's reducer over a text, match by match. *)
(***************************************************************************)
ScanInit ==
    /\ text \in ScanTexts
    /\ pos = 1
    /\ state = EmptyState
    /\ lastMatch = NoMatch
    /\ before = EmptyState
    /\ joined = FALSE
    /\ scanned = [done |-> FALSE, input_keys |-> <<>>]
    /\ objects = EmptyObjects

\* the pattern matches at pos: reduce and go on after the match; state is what
\* the pair of Set objects returned holds
ScanMatch ==
    /\ UNCHANGED <<sessionVars, designerVars>>
    /\ ~scanned.done
    /\ pos <= Len(text)
    /\ ExtendedFormatterRegex(text, pos).matched
    /\ LET r == ReduceOnObjects(objects.heap, objects.cur,
                                ExtendedFormatterRegex(text, pos))
       IN /\ objects' = [heap |-> r.heap, cur |-> r.cur, received |-> objects.cur]
          /\ state' = Contents(r.heap, r.cur)
    /\ lastMatch' = ExtendedFormatterRegex(text, pos)
    /\ before' = state
    /\ joined' = (lastMatch.exprType = "join" \/ joined)
    /\ pos' = ExtendedFormatterRegex(text, pos).next
    /\ UNCHANGED <<text, scanned>>

\* no match at pos: the character passes through
ScanText ==
    /\ UNCHANGED <<sessionVars, designerVars>>
    /\ ~scanned.done
    /\ pos <= Len(text)
    /\ ~ExtendedFormatterRegex(text, pos).matched
    /\ pos' = pos + 1
    /\ UNCHANGED <<text, state, lastMatch, before, joined, scanned, objects>>

\* finalize: ([inputs, _]) => setVariables(Array.from(inputs))
ScanFinalize ==
    /\ UNCHANGED <<sessionVars, designerVars>>
    /\ ~scanned.done
    /\ pos > Len(text)
    /\ scanned' = [done |-> TRUE, input_keys |-> state.inputs]
    /\ UNCHANGED <<text, pos, state, lastMatch, before, joined, objects>>

ScanNext == ScanMatch \/ ScanText \/ ScanFinalize

(***************************************************************************)
(* The leaf designers: LLMSpecDesigner, ReformatSpecDesigner,              *)
(* APISpecDesigner.  One designer is mounted on a freshly inserted node;   *)
(* node is what its last updateChainSpec call wrote for the node.          *)
(***************************************************************************)
\* texts typed into the designers' fields
DesignerTexts == Pieces \cup {<<>>}

\* texts typed into the url and body fields of the API designer
APITexts == {<<>>, <<"-">>, Ref(<<"a">>), Ref(<<"a", ".", "x">>)}

MethodTexts == {<<"G", "E", "T">>, <<"P", "O", "S", "T">>}

\* header mappings, each the set of its <<name, value>> entries
EmptyHeaders == {}

OneHeader == {<<"h", "v">>}

HeaderValues == {EmptyHeaders, OneHeader}

\* {"h":"v"} as typed on one line
OneHeaderTyped == <<"{", "\"", "h", "\"", ":", "\"", "v", "\"", "}">>

\* JSON.stringify(value, null, 2)
JSONStringify(value) ==
    IF value = EmptyHeaders THEN <<"{", "}">>
    ELSE <<"{", "\n", " ", " ", "\"", "h", "\"", ":", " ", "\"", "v", "\"", "\n", "}">>

\* JSON.parse(str) over the texts of the model: ok = FALSE when it throws
JSONParse(str) ==
    IF str = JSONStringify(EmptyHeaders) THEN [ok |-> TRUE, value |-> EmptyHeaders]
    ELSE IF str \in {OneHeaderTyped, JSONStringify(OneHeader)}
    THEN [ok |-> TRUE, value |-> OneHeader]
    ELSE [ok |-> FALSE, value |-> EmptyHeaders]

\* texts typed into the headers textarea; {" does not parse
HeaderTexts == {<<"{", "}">>, <<"{", "\"">>, OneHeaderTyped}

\* keys typed into a formatter's key field
KeyTexts == {"k"}

\* Object.fromEntries over [key, value] entries: a key holds its last value, at the
\* place of its first entry
FromEntries(entries) ==
    LET firsts == SelectSeq([i \in 1..Len(entries) |-> i],
                            LAMBDA i : \A j \in 1..(i - 1) : entries[j].key # entries[i].key)
        LastOf(k) == CHOOSE i \in 1..Len(entries) :
                        /\ entries[i].key = k
                        /\ \A j \in (i + 1)..Len(entries) : entries[j].key # k
    IN [n \in 1..Len(firsts) |->
           [key |-> entries[firsts[n]].key,
            value |-> entries[LastOf(entries[firsts[n]].key)].value]]

\* the Case specs the Case designer is mounted on: two labelled cases, without
\* and with a default case
CaseSpecs ==
    { CaseNode(0, "k", <<[label |-> "x", chain |-> LLMNode(1, "p")],
                         [label |-> "y", chain |-> LLMNode(2, "p")]>>, Null),
      CaseNode(0, "k", <<[label |-> "x", chain |-> LLMNode(1, "p")],
                         [label |-> "y", chain |-> LLMNode(2, "p")]>>, LLMNode(3, "p")) }

\* labels typed into a case's key field
CaseLabels == {"x", "y", "z", "_default"}

\* CaseSpecDesigner's effect on [spec]: Object.entries of {...spec.cases} with
\* spec.default_case, when there is one, under _default
CaseEntries(spec) ==
    FromEntries([i \in 1..Len(spec.cases) |->
                    [key |-> spec.cases[i].label, value |-> spec.cases[i].chain]]
                \o (IF spec.default_case # Null
                    THEN <<[key |-> "_default", value |-> spec.default_case]>>
                    ELSE <<>>))

\* mustFind(chain.chain_id): the chain the session's findByChainId returns for the
\* id of a child the designer renders; it has the entry's chain_id, and the
\* designer's children are taken to be in the tree searched, so it is the entry's
\* chain
MustFind(chain) == chain

\* computeCases and the node the effect on [categorizationKey, cases] writes:
\* Object.fromEntries over the entries, _default taken out as default_case
CaseNodeWritten(spec, cases) ==
    LET newCases == FromEntries([i \in 1..Len(cases) |->
                                    [key |-> cases[i].key,
                                     value |-> MustFind(cases[i].value)]])
        defaults == SelectSeq(newCases, LAMBDA e : e.key = "_default")
        updatedCases == SelectSeq(newCases, LAMBDA e : e.key # "_default")
    IN [spec EXCEPT
          !.cases = [i \in 1..Len(updatedCases) |->
                        [label |-> updatedCases[i].key, chain |-> updatedCases[i].value]],
          !.default_case = IF defaults = <<>> THEN Null ELSE defaults[1].value]

\* the Case designer once mounted on spec and its effects have run
CaseMounted(spec) ==
    [cases |-> CaseEntries(spec), spec |-> spec,
     node |-> CaseNodeWritten(spec, CaseEntries(spec))]

DesignerInit ==
    /\ mounted \in {"llm", "reformat", "api", "case"}
    /\ caseDesigner \in {CaseMounted(spec) : spec \in CaseSpecs}
    /\ llm = [prompt |-> <<>>, variables |-> <<>>, timeouts |-> <<>>,
              node |-> [prompt |-> <<>>, input_keys |-> <<>>]]
    /\ reformat = [formatters |-> <<>>, variables |-> <<>>,
                   node |-> [formatters |-> <<>>, input_keys |-> <<>>]]
    /\ api = [url |-> <<>>, method |-> <<"G", "E", "T">>,
              headers |-> JSONStringify(EmptyHeaders), headersError |-> FALSE,
              body |-> <<>>,
              textarea |-> JSONStringify(EmptyHeaders), lastParsed |-> EmptyHeaders,
              spec |-> [url |-> <<>>, method |-> <<"G", "E", "T">>,
                        headers |-> EmptyHeaders, body |-> <<>>, input_keys |-> <<>>],
              node |-> [url |-> <<>>, method |-> <<"G", "E", "T">>,
                        headers |-> EmptyHeaders, body |-> <<>>, input_keys |-> <<>>]]

\* LLM: the prompt changes; the textarea's reducer scans it and finalize schedules
\* setVariables; the effect writes the node with the variables of this render
LLMSetPrompt(v) ==
    /\ UNCHANGED <<sessionVars, scanVars>>
    /\ mounted = "llm"
    /\ Len(llm.timeouts) < MaxTimeouts
    /\ v # llm.prompt
    /\ llm' = [llm EXCEPT !.prompt = v,
                          !.timeouts = Append(@, LLMScan(v, 1, <<>>)),
                          !.node = [prompt |-> v, input_keys |-> llm.variables]]
    /\ UNCHANGED <<mounted, reformat, api, caseDesigner>>

\* LLM: a scheduled setVariables runs; the effect writes the node again
LLMTimeout ==
    /\ UNCHANGED <<sessionVars, scanVars>>
    /\ mounted = "llm"
    /\ llm.timeouts # <<>>
    /\ llm' = [llm EXCEPT !.variables = Head(llm.timeouts),
                          !.timeouts = Tail(@),
                          !.node = [prompt |-> llm.prompt, input_keys |-> Head(llm.timeouts)]]
    /\ UNCHANGED <<mounted, reformat, api, caseDesigner>>

\* the node ReformatSpecDesigner's effect writes
ReformatNode(formatters, variables) ==
    [formatters |-> FromEntries(formatters), input_keys |-> variables]

\* the variables the shared reducer's finalize sets after scanning one formatter
ReformatVariables(value) == ExtractInputs(value)

\* Reformat: addFormatter
AddFormatter ==
    /\ UNCHANGED <<sessionVars, scanVars>>
    /\ mounted = "reformat"
    /\ Len(reformat.formatters) < MaxFormatters
    /\ LET fs == Append(reformat.formatters,
                        [key |-> "output_key_" \o ToString(Len(reformat.formatters)),
                         value |-> <<>>])
       IN reformat' = [reformat EXCEPT !.formatters = fs,
                                       !.node = ReformatNode(fs, reformat.variables)]
    /\ UNCHANGED <<mounted, llm, api, caseDesigner>>

\* Reformat: the text of formatter index changes (updateFormatter(idx, key, newValue));
\* its textarea scans the new text and finalize sets variables
UpdateFormatterValue(index, v) ==
    /\ UNCHANGED <<sessionVars, scanVars>>
    /\ mounted = "reformat"
    /\ index \in 1..Len(reformat.formatters)
    /\ v # reformat.formatters[index].value
    /\ LET fs == [reformat.formatters EXCEPT ![index].value = v]
       IN reformat' = [formatters |-> fs,
                       variables |-> ReformatVariables(v),
                       node |-> ReformatNode(fs, ReformatVariables(v))]
    /\ UNCHANGED <<mounted, llm, api, caseDesigner>>

\* Reformat: the key of formatter index changes (updateFormatter(idx, newKey, value))
UpdateFormatterKey(index, k) ==
    /\ UNCHANGED <<sessionVars, scanVars>>
    /\ mounted = "reformat"
    /\ index \in 1..Len(reformat.formatters)
    /\ k # reformat.formatters[index].key
    /\ LET fs == [reformat.formatters EXCEPT ![index].key = k]
       IN reformat' = [reformat EXCEPT !.formatters = fs,
                                       !.node = ReformatNode(fs, reformat.variables)]
    /\ UNCHANGED <<mounted, llm, api, caseDesigner>>

\* Reformat: the textarea of formatter index renders its highlight again, running
\* the shared reducer over its text
RescanFormatter(index) ==
    /\ UNCHANGED <<sessionVars, scanVars>>
    /\ mounted = "reformat"
    /\ index \in 1..Len(reformat.formatters)
    /\ LET vs == ReformatVariables(reformat.formatters[index].value)
       IN /\ vs # reformat.variables
          /\ reformat' = [reformat EXCEPT !.variables = vs,
                                          !.node = ReformatNode(reformat.formatters, vs)]
    /\ UNCHANGED <<mounted, llm, api, caseDesigner>>

\* tryParseHeaders(headers): the value returned and the headersError it sets;
\* when JSON.parse throws the value is the headers of the spec prop
TryParseHeaders(a) ==
    IF JSONParse(a.headers).ok
    THEN [error |-> FALSE, value |-> JSONParse(a.headers).value]
    ELSE [error |-> TRUE, value |-> a.spec.headers]

\* the node APISpecDesigner's effect writes
APINode(a) ==
    [url |-> a.url, method |-> a.method, headers |-> TryParseHeaders(a).value,
     body |-> a.body,
     input_keys |-> APIInputKeys(a.url, a.method, a.headers, a.body)]

\* the designer after its effect over url, method, headers and body has run;
\* lastParsed keeps the value of the last JSON.parse that did not throw
APIAfterEffect(a) ==
    [a EXCEPT !.node = APINode(a),
              !.headersError = TryParseHeaders(a).error,
              !.lastParsed = IF JSONParse(a.headers).ok
                             THEN JSONParse(a.headers).value ELSE @]

\* API: one of the fields changes and the effect writes the node; the headers
\* textarea is uncontrolled and holds what was typed
APISetField(field, v) ==
    /\ UNCHANGED <<sessionVars, scanVars>>
    /\ mounted = "api"
    /\ v # api[field]
    /\ LET a == [api EXCEPT ![field] = v,
                            !.textarea = IF field = "headers" THEN v ELSE @]
       IN api' = APIAfterEffect(a)
    /\ UNCHANGED <<mounted, llm, reformat, caseDesigner>>

\* API: the committed tree is replaced by the working tree (as by an insert
\* elsewhere in the tree), so the spec prop becomes the node last written; the
\* effect on [spec] sets url, method, headers and body from it, and when the
\* headers text changes by that, the effect over the fields runs again
APISpecChanged ==
    /\ UNCHANGED <<sessionVars, scanVars>>
    /\ mounted = "api"
    /\ api.spec # api.node
    /\ LET a == [api EXCEPT !.spec = api.node,
                            !.url = api.node.url,
                            !.method = api.node.method,
                            !.headers = JSONStringify(api.node.headers),
                            !.body = api.node.body]
       IN api' = IF a.headers # api.headers THEN APIAfterEffect(a) ELSE a
    /\ UNCHANGED <<mounted, llm, reformat, caseDesigner>>

\* Case: updateCaseKey(index, key) on the key field of an entry; the effect on
\* [categorizationKey, cases] writes the node
UpdateCaseKey(index, key) ==
    /\ UNCHANGED <<sessionVars, scanVars>>
    /\ mounted = "case"
    /\ index \in 1..Len(caseDesigner.cases)
    /\ key # caseDesigner.cases[index].key
    /\ LET newCases == [caseDesigner.cases EXCEPT ![index].key = key]
       IN caseDesigner' = [caseDesigner EXCEPT
                              !.cases = newCases,
                              !.node = CaseNodeWritten(caseDesigner.spec, newCases)]
    /\ UNCHANGED <<mounted, llm, reformat, api>>

DesignerNext ==
    \/ \E v \in DesignerTexts : LLMSetPrompt(v)
    \/ LLMTimeout
    \/ AddFormatter
    \/ \E index \in 1..MaxFormatters, v \in DesignerTexts : UpdateFormatterValue(index, v)
    \/ \E index \in 1..MaxFormatters, k \in KeyTexts : UpdateFormatterKey(index, k)
    \/ \E index \in 1..MaxFormatters : RescanFormatter(index)
    \/ \E v \in APITexts : APISetField("url", v)
    \/ \E v \in MethodTexts : APISetField("method", v)
    \/ \E v \in HeaderTexts : APISetField("headers", v)
    \/ \E v \in APITexts : APISetField("body", v)
    \/ APISpecChanged
    \/ \E index \in 1..Len(caseDesigner.cases), key \in CaseLabels :
          UpdateCaseKey(index, key)

SessionNext ==
    \/ \E spec \in LoadTrees : setChainSpec(spec)
    \/ \E type \in SpecTypes, chainId \in ChainIds, index \in 0..MaxIndex :
          insertChainSpec(type, chainId, index)
    \/ \E spec \in UpdateArgs(dirtyChainSpec) : updateDirtyChainSpec(spec)
    \/ Render

vars == <<sessionVars, scanVars, designerVars>>

\* a part of the model that is not running stays as constructed
SessionIdle == SessionInit

ScanIdle ==
    /\ text = <<>>
    /\ pos = 1
    /\ state = EmptyState
    /\ lastMatch = NoMatch
    /\ before = EmptyState
    /\ joined = FALSE
    /\ scanned = [done |-> FALSE, input_keys |-> <<>>]
    /\ objects = EmptyObjects

DesignerIdle ==
    /\ mounted = "none"
    /\ llm = <<>>
    /\ reformat = <<>>
    /\ api = <<>>
    /\ caseDesigner = <<>>

\* the editor session
Init == SessionInit /\ ScanIdle /\ DesignerIdle

Next == SessionNext

Spec == Init /\ [][Next]_vars

\* one pass of the extractor over a text
ScanSpecInit == ScanInit /\ SessionIdle /\ DesignerIdle

ScanSpecNext == ScanNext

ScanSpec == ScanSpecInit /\ [][ScanSpecNext]_vars

\* a leaf designer being edited
DesignerSpecInit == DesignerInit /\ SessionIdle /\ ScanIdle

DesignerSpecNext == DesignerNext

DesignerSpec == DesignerSpecInit /\ [][DesignerSpecNext]_vars

(***************************************************************************)
(* Properties of the editor session.                                       *)
(***************************************************************************)

\* C1: after any sequence of setChainSpec (a tree with pairwise distinct
\* chain_ids), insertChainSpec and updateChainSpec calls, the chain_ids of the
\* working tree are pairwise distinct.
C1_WorkingIdsDistinct == DistinctIds(dirtyChainSpec)

\* C2: a call of insertChainSpec or updateChainSpec leaves the committed tree as
\* it was: it schedules no new value for chainSpec.
C2_InsertUpdateKeepCommitted ==
    [][lastCall'.op \in {"insert", "update"}
          => (queued'.chainSpec = queued.chainSpec
              /\ queued'.chainSpecSet = queued.chainSpecSet)]_vars

\* C3 as stated: in every state the clean gate equals
\* structuralEquals(committed, working), the initial empty session included.
C3_GateIsStructuralEquals ==
    readyToInteract = DeepEquals(chainSpec, dirtyChainSpec)

\* C3 as amended: the clean gate holds exactly when a committed tree exists and
\* it structurally equals the working tree; in the initial, empty session the
\* gate is false.
C3_GateIsLoadedAndEqual ==
    /\ readyToInteract = (chainSpec # Null /\ DeepEquals(chainSpec, dirtyChainSpec))
    /\ (chainSpec = Null => ~readyToInteract)

\* C3 witness: a rendered session whose working tree was edited away from the
\* committed tree, and the gate is down
C3_Witness ==
    /\ chainSpec # Null
    /\ ~DeepEquals(chainSpec, dirtyChainSpec)
    /\ ~readyToInteract
    /\ lastCall.op = "render"

\* the ids handed out so far are pairwise distinct
AllocatedDistinct ==
    \A i, j \in 1..Len(allocated) : i # j => allocated[i] # allocated[j]

\* C4: once the provider has rendered n successful insertChainSpec calls, the
\* allocator is its initial value 0 plus n and the n new nodes got n distinct ids.
C4_AllocatorAdvancesPerInsert ==
    ~UpdateScheduled => (nextChainId = Len(allocated) /\ AllocatedDistinct)

\* C5: updateChainSpec(s) with s.chain_id absent from the working tree throws and
\* leaves the working tree, the committed tree and the allocator as they were,
\* scheduled values included.
C5_UpdateAbsentIsFatal ==
    [][(lastCall'.op = "update" /\ FindByChainId(lastCall'.id, dirtyChainSpec) = Null)
          => (/\ lastCall'.threw
              /\ queued' = queued
              /\ chainSpec' = chainSpec
              /\ dirtyChainSpec' = dirtyChainSpec
              /\ nextChainId' = nextChainId)]_vars

\* C5 witness: an update of an id absent from a non-empty working tree has thrown
C5_Witness ==
    /\ lastCall.op = "update"
    /\ lastCall.threw
    /\ dirtyChainSpec # Null
    /\ FindByChainId(lastCall.id, dirtyChainSpec) = Null

\* C15: insertChainSpec on an empty session (the working tree is null) goes
\* through whatever parentId and index are, and the tree it schedules is a single
\* node of the type asked for whose chain_id is the allocator's current value.
C15_InsertIntoEmptyMakesRoot ==
    [][(lastCall'.op = "insert" /\ dirtyChainSpec = Null)
          => (/\ ~lastCall'.threw
              /\ lastCall'.type \in SpecTypes
              /\ queued'.dirtyChainSpec.chain_type = lastCall'.type
              /\ queued'.dirtyChainSpec.chain_id = nextChainId
              /\ Children(queued'.dirtyChainSpec) = <<>>
              /\ queued'.dirtyChainSpec = DefaultSpec(lastCall'.type, nextChainId))]_vars

\* C15 witness: an insert with parentId 1 has gone through on the empty session
\* and scheduled a root with chain_id 0
C15_Witness ==
    /\ lastCall.op = "insert"
    /\ ~lastCall.threw
    /\ lastCall.id = 1
    /\ dirtyChainSpec = Null
    /\ queued.dirtyChainSpec # Null
    /\ queued.dirtyChainSpec.chain_id = 0
    /\ nextChainId = 0

\* C16: insertChainSpec with a parentId that resolves to no node of a non-empty
\* working tree, or to a leaf, throws and leaves the working tree, the committed
\* tree and the allocator as they were, scheduled values included.
C16_InsertBadParentIsFatal ==
    [][(/\ lastCall'.op = "insert"
        /\ dirtyChainSpec # Null
        /\ ~IsContainer(FindByChainId(lastCall'.id, dirtyChainSpec)))
          => (/\ lastCall'.threw
              /\ queued' = queued
              /\ allocated' = allocated
              /\ chainSpec' = chainSpec
              /\ dirtyChainSpec' = dirtyChainSpec
              /\ nextChainId' = nextChainId)]_vars

\* C16 witness: an insert under a leaf of a non-empty working tree has thrown
C16_Witness ==
    /\ lastCall.op = "insert"
    /\ lastCall.threw
    /\ dirtyChainSpec # Null
    /\ FindByChainId(lastCall.id, dirtyChainSpec) # Null
    /\ ~IsContainer(FindByChainId(lastCall.id, dirtyChainSpec))

\* C18: the session's findByChainId finds, for every chain_id, what a search
\* of the current working tree finds, also after an updateChainSpec that changed
\* the working tree and left the committed tree as it was.
C18_FindSearchesWorkingTree ==
    \A id \in ChainIds :
       findChainInCurrentSpec(id) = FindByChainId(id, dirtyChainSpec)

(***************************************************************************)
(* Properties of the extractor and of the leaf designers.                  *)
(***************************************************************************)
\* the names of an input_keys array
Keys(seq) == {seq[i] : i \in 1..Len(seq)}

\* the external inputs of a node's template texts: the extractor run over each
ExtractOver(texts) == UNION {Keys(ExtractInputs(texts[i])) : i \in 1..Len(texts)}

\* C6: once the designer has settled, the input_keys written to a leaf node are
\* the external inputs the extractor computes over the node's template text, for
\* the LLM, the Reformat and the API designer alike (the headers typed here are
\* JSON text without references and are left out of the comparison).
C6_InputKeysAreExtractorInputs ==
    /\ (mounted = "llm" /\ llm.timeouts = <<>>)
          => Keys(llm.node.input_keys) = ExtractOver(<<llm.node.prompt>>)
    /\ mounted = "reformat"
          => Keys(reformat.node.input_keys)
                = ExtractOver([i \in 1..Len(reformat.formatters) |->
                                  reformat.formatters[i].value])
    /\ mounted = "api"
          => Keys(api.node.input_keys)
                = ExtractOver(<<api.url, api.method, api.body>>)

\* C7: every external input of every current formatter of a Reformat node is in
\* the node's input_keys.
C7_InputKeysCoverAllFormatters ==
    mounted = "reformat"
       => \A i \in 1..Len(reformat.formatters) :
             Keys(ExtractInputs(reformat.formatters[i].value))
                \subseteq Keys(reformat.node.input_keys)

\* C8 as stated: for distinct names a, b, c, {let:a:b}{expr:b:c} yields
\* input_keys with a and without b, and {expr:a:b}{let:b:c} yields input_keys
\* with b.
C8_OrderingAsStated ==
    scanned.done =>
       \A t \in DistinctTriples :
          /\ text = DeclareThenUse(t[1], t[2], t[3])
                => (t[1] \in Keys(scanned.input_keys) /\ t[2] \notin Keys(scanned.input_keys))
          /\ text = UseThenDeclare(t[1], t[2], t[3])
                => t[2] \in Keys(scanned.input_keys)

\* C8 as amended: for distinct names a, b, c, {let:a:b}{expr:b:c} yields
\* input_keys with a and without b; {expr:a:b}{let:b:c} yields input_keys
\* without b, the expr having bound b before the let reads it; b is an input
\* when it is read before the directive that binds it, as in {b}{let:a:b}.
C8_OrderingSensitivity ==
    scanned.done =>
       \A t \in DistinctTriples :
          /\ text = DeclareThenUse(t[1], t[2], t[3])
                => (t[1] \in Keys(scanned.input_keys) /\ t[2] \notin Keys(scanned.input_keys))
          /\ text = UseThenDeclare(t[1], t[2], t[3])
                => t[2] \notin Keys(scanned.input_keys)
          /\ text = ReadThenDeclare(t[1], t[2])
                => t[2] \in Keys(scanned.input_keys)

\* C8 witness: a finished pass over {expr:a:b}{let:b:c} that left b out
C8_Witness ==
    /\ scanned.done
    /\ \E t \in DistinctTriples :
          /\ text = UseThenDeclare(t[1], t[2], t[3])
          /\ lastMatch.exprType = "let"
          /\ t[2] \in state.internal
          /\ t[2] \notin Keys(scanned.input_keys)

\* the name a plain reference names
StdVariable(m) == ParseFormatExpression(m.stdExprVar)[1]

\* C9: a join directive leaves item and index in internal-names whatever its
\* arguments are; a plain reference to item or index after a join adds no
\* input; {join:items:out}{item}-{index} yields input_keys = ["items"].
C9_JoinBindsItemAndIndex ==
    /\ lastMatch.exprType = "join" => {ItemName, IndexName} \subseteq state.internal
    /\ (joined /\ lastMatch.stdExpr /\ StdVariable(lastMatch) \in {ItemName, IndexName})
          => state.inputs = before.inputs
    /\ (scanned.done /\ text = JoinExample) => scanned.input_keys = <<ItemsName>>

\* C9 witness: the pass over {join:items:out}{item}-{index} has finished, its
\* last match the plain reference {index} after the join
C9_Witness ==
    /\ scanned.done
    /\ text = JoinExample
    /\ joined
    /\ lastMatch.stdExpr
    /\ StdVariable(lastMatch) = IndexName

\* C10: a join directive {join:name:out} adds out to internal-names, so a later
\* plain reference {out} adds no input.
C10_JoinBindsOut ==
    /\ (lastMatch.exprType = "join" /\ lastMatch.hasParam2)
          => lastMatch.exprParam2 \in state.internal
    /\ scanned.done
          => \A n \in Names : \A o \in (Names \cup {OutName}) \ {n} :
                text = JoinThenOut(n, o) => o \notin Keys(scanned.input_keys)

\* the leading identifier of a directive's first argument
LeadingIdentifier(m) == ParseFormatExpression(m.exprParam1)[1]

\* C11: a parse_json, let, int or float directive with both arguments adds the
\* leading identifier of its first argument to the external inputs exactly when
\* that name is not internal already, adds its second argument to the internal
\* names, and changes nothing else: the inputs before keep their order, the
\* internal names before stay.
C11_BindAddsReadAndBinds ==
    (lastMatch.exprType \in {"parse_json", "let", "int", "float"} /\ lastMatch.hasParam2)
       => /\ state.inputs =
                (IF LeadingIdentifier(lastMatch) \in before.internal
                       \/ LeadingIdentifier(lastMatch) \in Keys(before.inputs)
                 THEN before.inputs
                 ELSE before.inputs \o <<LeadingIdentifier(lastMatch)>>)
          /\ (LeadingIdentifier(lastMatch) \in Keys(state.inputs))
                = (\/ LeadingIdentifier(lastMatch) \in Keys(before.inputs)
                   \/ LeadingIdentifier(lastMatch) \notin before.internal)
          /\ state.internal = before.internal \cup {lastMatch.exprParam2}

\* C11 witness: a parse_json directive with both arguments has read a name that
\* an earlier let had bound, and added no input for it
C11_Witness ==
    /\ lastMatch.exprType = "parse_json"
    /\ lastMatch.hasParam2
    /\ LeadingIdentifier(lastMatch) \in before.internal
    /\ LeadingIdentifier(lastMatch) \notin Keys(state.inputs)
    /\ before.inputs # <<>>

\* the names of the references among parts, each at its first occurrence
DistinctNames(ps) ==
    LET refs == SelectSeq([i \in 1..Len(ps) |-> i], LAMBDA i : ps[i].ref)
        firsts == SelectSeq(refs, LAMBDA i :
                     \A j \in 1..(i - 1) : ps[j].ref => ps[j].name # ps[i].name)
    IN [n \in 1..Len(firsts) |-> ps[firsts[n]].name]

\* templates of plain text and plain references, each with the names expected
PlainTable ==
    {<<RenderPlain(ps), DistinctNames(ps)>> : ps \in PlainSeqs(MaxPieces + 1)}

\* C12: for a template of plain text and plain references {name<tail>} only,
\* input_keys is the sequence of the distinct leading identifiers in the order of
\* their first occurrence: no name twice, no modifier tail, no other name.
C12_PlainReferencesInOrder ==
    scanned.done =>
       \A e \in PlainTable : text = e[1] => scanned.input_keys = e[2]

\* C12 witness: the pass over {a.x}{1d[0]}{a} has finished with a and 1d
C12_Witness ==
    /\ scanned.done
    /\ text = <<"{", "a", ".", "x", "}", "{", "1", "d", "[", "0", "]", "}",
                "{", "a", "}">>
    /\ scanned.input_keys = << <<"a">>, <<"1", "d">> >>
    /\ \E e \in PlainTable : e[1] = text

\* the token the reduction of the last match rendered
LastToken == ExtendedFormatterReduceFunc(before, lastMatch).token

\* C13: bracket content with a colon that has not the shape of a known directive
\* (as {foo:bar:baz} or {let:a:b:c}) is rendered as the error token and leaves
\* the state as it was.
C13_ColonContentIsError ==
    (lastMatch.matched /\ lastMatch.exprType = "" /\ ":" \in Keys(lastMatch.stdExprVar))
       => (LastToken = "error" /\ state = before)

\* C14: while the text of the headers textarea does not parse, the node keeps
\* the headers of the last successful parse, the error flag is up, and the
\* designer's headers text is still the text typed, not one the designer set
\* from the spec.
C14_UnparsableHeadersKept ==
    (mounted = "api" /\ ~JSONParse(api.textarea).ok)
       => /\ api.node.headers = api.lastParsed
          /\ api.headersError
          /\ api.headers = api.textarea

\* C17: a reduction leaves the Set objects it receives as they were and returns
\* a pair of new objects; the state a match is reduced from is the state of the
\* pass over the text before it; the input_keys of a finished pass are those of
\* another pass over the same text from the empty state.
C17_ReductionKeepsReceivedState ==
    /\ lastMatch.matched
          => /\ Contents(objects.heap, objects.received) = before
             /\ {objects.cur.inputs, objects.cur.internal}
                   \cap {objects.received.inputs, objects.received.internal} = {}
             /\ Contents(objects.heap, objects.cur) = state
    /\ ~scanned.done
          => state = ExtendedScan(SubSeq(text, 1, pos - 1), 1, EmptyState)
    /\ scanned.done => scanned.input_keys = ExtractInputs(text)

\* C17 witness: a finished pass whose last reduction received a state with an
\* input and an internal name and added to both
C17_Witness ==
    /\ scanned.done
    /\ lastMatch.matched
    /\ before.inputs # <<>>
    /\ before.internal # {}
    /\ Len(state.inputs) > Len(before.inputs)
    /\ state.internal # before.internal
    /\ Contents(objects.heap, objects.received) = before

\* C20: a parse_json, let, int, float or expr directive without its second
\* argument (as {let:a}) is matched as that directive and binds the internal
\* name data, so a later plain reference {data} adds no input.
C20_MissingArgBindsData ==
    /\ \A w \in BindWords \cup {ExprWord} : \A n \in Names :
          (text = DefaultThenData(w, n) /\ pos = Len(Dir1(w, n)) + 1)
             => /\ lastMatch.exprType \in {"parse_json", "let", "int", "float", "expr"}
                /\ ~lastMatch.stdExpr
                /\ lastMatch.exprParam1 = n
    /\ (lastMatch.exprType \in {"parse_json", "let", "int", "float", "expr"}
          /\ ~lastMatch.hasParam2)
          => state.internal = before.internal \cup {DataName}
    /\ scanned.done
          => \A w \in BindWords \cup {ExprWord} : \A n \in Names :
                text = DefaultThenData(w, n) => DataName \notin Keys(scanned.input_keys)

\* C20 witness: the pass over {int:a}{data} has finished; its last match, the
\* plain reference {data}, added no input
C20_Witness ==
    /\ scanned.done
    /\ text = DefaultThenData(Directives[5].word, <<"a">>)
    /\ lastMatch.stdExpr
    /\ StdVariable(lastMatch) = DataName
    /\ DataName \in before.internal
    /\ state.inputs = before.inputs
    /\ scanned.input_keys = << <<"a">> >>

\* the chain_ids of a Case spec's children: its cases and its default_case
ChildIds(n) == {Children(n)[i].chain_id : i \in 1..Len(Children(n))}

\* C19: editing a case label leaves the set of children of the Case spec as it
\* was: the node written holds, as cases or as default_case, the chain_ids of the
\* spec the designer was mounted on, also when the label typed is that of
\* another entry or _default.
C19_LabelEditKeepsChildren ==
    mounted = "case" => ChildIds(caseDesigner.node) = ChildIds(caseDesigner.spec)

=============================================================================
